---- MODULE Spec2Model ----
(***************************************************************************)
(* Model of src/infer/infer_church.py: the run loop of main over the       *)
(* prompt list, the image file written by generate, the scoped fine-tune   *)
(* patch, and the evaluation / reporting stage of the __main__ block.      *)
(* One behaviour is a sequence of process runs on one output directory.    *)
(***************************************************************************)
EXTENDS Integers, Sequences, FiniteSets, TLC

\* ---------------------------------------------------------------- bounds
MaxPrompts == 3        \* longest prompt list loaded from json_path
MaxRuns    == 2        \* process runs on the same output directory
MaxRows    == 2        \* most rows of classification_results.csv

VARIABLES
    prompts,        \* json.load(f): the list of items, each the set of its fields
    finetune_path,  \* truthiness of the finetune_path argument of main
    files,          \* output_dir: path of an image file -> its content
    csv,            \* {} when classification_results.csv is absent, else {rows}
    pc,             \* position of the process
    idx,            \* loop variable of "for idx, item in enumerate(prompts)"
    index,          \* the index argument of the generate call in progress
    state,          \* per item: PENDING, GENERATING, SKIPPED, DONE, FAILED
    active,         \* the fine-tune patch is switched on
    log,            \* lines printed by the run loop of this run
    exc,            \* the exception that ended the process, or "none"
    church_rate,    \* the printed rate, in hundredths of a percent
    report,         \* what the reporting stage printed
    run,            \* number of runs started
    writes,         \* path -> number of times generate saved it, over all runs
    genRaised,      \* indices whose generate call raised in this run
    generated,      \* indices for which generate was called in this run
    atReturn,       \* files when main returned in this run
    prev            \* how the previous run ended

vars == <<prompts, finetune_path, files, csv, pc, idx, index, state, active,
          log, exc, church_rate, report, run, writes, genRaised, generated,
          atReturn, prev>>

\* ------------------------------------------------------------ pure helpers
Digits == <<"0", "1", "2", "3", "4", "5", "6", "7", "8", "9">>

RECURSIVE Str(_)
\* str(n) of a non-negative integer, as the sequence of its characters
Str(n) == IF n < 10 THEN <<Digits[n + 1]>>
          ELSE Str(n \div 10) \o <<Digits[(n % 10) + 1]>>

\* f"{idx}.png"
PngName(i) == Str(i) \o <<".png">>

\* os.path.join(dir, name)
Join(dir, name) == <<dir, "/">> \o name

output_dir == "output_dir"

\* the skip check tests another extension than the one generate writes
MainSavePathJpg(i) == Join(output_dir, Str(i) \o <<".jpg">>)

\* main, line 134: save_path = os.path.join(output_dir, f"{idx}.png")
MainSavePath(i) == Join(output_dir, PngName(i))

\* generate, line 113: save_path = os.path.join(save_dir, f"{index}.png")
GenerateSavePath(save_dir, i) == Join(save_dir, PngName(i))

\* the existence test inverted
existsInverted(path) == path \notin DOMAIN files

\* os.path.exists(path)
exists(path) == path \in DOMAIN files

\* item["prompt"] evaluates without KeyError
HasPrompt(item) == "prompt" \in item

NumPrompts == Len(prompts)
Indices == 0 .. (Len(prompts) - 1)
Item(i) == prompts[i + 1]

Terminal == {"SKIPPED", "DONE", "FAILED"}

\* an item with a "prompt" field, and an item with another field instead
ItemKinds == {{"prompt"}, {"text"}}
PromptLists == UNION {[1..n -> ItemKinds] : n \in 0..MaxPrompts}

Categories == {"church", "other"}
Tables == UNION {[1..n -> Categories] : n \in 0..MaxRows}

\* len(df[df['category_top1'] == 'church'])
ChurchCount(df) == Cardinality({r \in DOMAIN df : df[r] = "church"})

\* f"{church_count / total_count * 100:.2f}", in hundredths of a percent
\* (round half to even), for total_count > 0
Rate(church_count, total_count) ==
    LET n == church_count * 10000
        q == n \div total_count
        r == n % total_count
    IN  IF 2 * r < total_count THEN q
        ELSE IF 2 * r > total_count THEN q + 1
        ELSE IF q % 2 = 0 THEN q ELSE q + 1

\* FineTunedModel.__enter__ / __exit__: switch the patch on / off
FinetunerEnter == TRUE
FinetunerExit == FALSE

Bump(w, p) == IF p \in DOMAIN w THEN [w EXCEPT ![p] = @ + 1]
              ELSE [q \in DOMAIN w \cup {p} |-> IF q = p THEN 1 ELSE w[q]]

\* PIL.Image.fromarray(...).save(save_path): creates or replaces the file
Save(fs, p, content) == [q \in DOMAIN fs \cup {p} |-> IF q = p THEN content ELSE fs[q]]

\* ------------------------------------------------------------------ Init
Init ==
    /\ prompts \in PromptLists
    /\ finetune_path = FALSE
    /\ \E pre \in SUBSET {MainSavePath(i) : i \in 0 .. (Len(prompts) - 1)} :
          files = [p \in pre |-> 0]
    /\ csv = {}
    /\ pc = "start"
    /\ idx = 0
    /\ index = 0
    /\ state = [i \in 0 .. (Len(prompts) - 1) |-> "PENDING"]
    /\ active = FALSE
    /\ log = <<>>
    /\ exc = "none"
    /\ church_rate = 0
    /\ report = "none"
    /\ run = 0
    /\ writes = [p \in {} |-> 0]
    /\ genRaised = {}
    /\ generated = {}
    /\ atReturn = files
    /\ prev = [returned |-> FALSE, exited |-> FALSE, state |-> <<>>, files |-> <<>>]

\* --------------------------------------------------------------- actions
\* main, lines 117-130: a new process on the same output directory; the
\* model and the patch are built afresh, the prompt list is loaded
Start ==
    /\ pc \in {"start", "exit", "raised"}
    /\ run < MaxRuns
    /\ run' = run + 1
    /\ prev' = [returned |-> (pc # "start" /\ idx = NumPrompts),
                exited |-> (pc = "exit"), state |-> state, files |-> files]
    /\ pc' = "loop"
    /\ idx' = 0
    /\ state' = [i \in Indices |-> "PENDING"]
    /\ active' = FALSE
    /\ log' = <<>>
    /\ exc' = "none"
    /\ report' = "none"
    /\ church_rate' = 0
    /\ genRaised' = {}
    /\ generated' = {}
    /\ atReturn' = files
    /\ finetune_path' \in BOOLEAN
    /\ UNCHANGED <<prompts, files, csv, index, writes>>

\* lines 134-137: the output of this index exists: print and continue
Skip ==
    /\ pc = "loop"
    /\ idx < NumPrompts
    /\ exists(MainSavePath(idx))
    /\ log' = Append(log, [msg |-> "skip", idx |-> idx])
    /\ state' = [state EXCEPT ![idx] = "SKIPPED"]
    /\ idx' = idx + 1
    /\ UNCHANGED <<prompts, finetune_path, files, csv, pc, index, active, exc,
                   church_rate, report, run, writes, genRaised, generated,
                   atReturn, prev>>

\* line 135 false: fall through to the generation branch
NotExists ==
    /\ pc = "loop"
    /\ idx < NumPrompts
    /\ ~exists(MainSavePath(idx))
    /\ state' = [state EXCEPT ![idx] = "GENERATING"]
    /\ pc' = "prepare"
    /\ UNCHANGED <<prompts, finetune_path, files, csv, idx, index, active, log,
                   exc, church_rate, report, run, writes, genRaised, generated,
                   atReturn, prev>>

\* the except clause leaves the loop instead of continuing
ExceptHandlerBreak ==
    IF HasPrompt(Item(idx))
    THEN /\ log' = Append(log, [msg |-> "failed", idx |-> idx])
         /\ state' = [state EXCEPT ![idx] = "FAILED"]
         /\ idx' = NumPrompts
         /\ pc' = "loop"
         /\ exc' = exc
    ELSE /\ pc' = "raised"
         /\ exc' = "KeyError"
         /\ UNCHANGED <<log, state, idx>>

\* lines 167-168: except Exception as e: print(f"... {idx} ... {item['prompt']} ...")
\* the f-string evaluates item['prompt']; a KeyError there leaves main
ExceptHandler ==
    IF HasPrompt(Item(idx))
    THEN /\ log' = Append(log, [msg |-> "failed", idx |-> idx])
         /\ state' = [state EXCEPT ![idx] = "FAILED"]
         /\ idx' = idx + 1
         /\ pc' = "loop"
         /\ exc' = exc
    ELSE /\ pc' = "raised"
         /\ exc' = "KeyError"
         /\ UNCHANGED <<log, state, idx>>

\* line 139: item["prompt"] raises KeyError inside the try body
PromptMissing ==
    /\ pc = "prepare"
    /\ ~HasPrompt(Item(idx))
    /\ ExceptHandler
    /\ UNCHANGED <<prompts, finetune_path, files, csv, index, active,
                   church_rate, report, run, writes, genRaised, generated,
                   atReturn, prev>>

\* lines 139-146: the processor raises while formatting the conversation
FormatRaise ==
    /\ pc = "prepare"
    /\ HasPrompt(Item(idx))
    /\ ExceptHandler
    /\ UNCHANGED <<prompts, finetune_path, files, csv, index, active,
                   church_rate, report, run, writes, genRaised, generated,
                   atReturn, prev>>

\* generate called without index=idx: the parameter keeps its default 0
CallGenerateDefaultIndex ==
    /\ pc = "prepare"
    /\ HasPrompt(Item(idx))
    /\ active' = IF finetune_path THEN FinetunerEnter ELSE active
    /\ index' = 0
    /\ generated' = generated \cup {idx}
    /\ pc' = "generate"
    /\ UNCHANGED <<prompts, finetune_path, files, csv, idx, state, log, exc,
                   church_rate, report, run, writes, genRaised, atReturn, prev>>

\* lines 148-164: enter the patch scope when finetune_path is set, call generate
CallGenerate ==
    /\ pc = "prepare"
    /\ HasPrompt(Item(idx))
    /\ active' = IF finetune_path THEN FinetunerEnter ELSE active
    /\ index' = idx
    /\ generated' = generated \cup {idx}
    /\ pc' = "generate"
    /\ UNCHANGED <<prompts, finetune_path, files, csv, idx, state, log, exc,
                   church_rate, report, run, writes, genRaised, atReturn, prev>>

\* lines 111-114, 156, 165: generate saves the image and returns, the patch
\* scope is left, the success line is printed
GenerateReturn ==
    /\ pc = "generate"
    /\ files' = Save(files, GenerateSavePath(output_dir, index), run)
    /\ writes' = Bump(writes, GenerateSavePath(output_dir, index))
    /\ active' = IF finetune_path THEN FinetunerExit ELSE active
    /\ log' = Append(log, [msg |-> "generated", idx |-> idx])
    /\ state' = [state EXCEPT ![idx] = "DONE"]
    /\ idx' = idx + 1
    /\ pc' = "loop"
    /\ UNCHANGED <<prompts, finetune_path, csv, index, exc, church_rate, report,
                   run, genRaised, generated, atReturn, prev>>

\* the generate call outside the try block: its exception leaves main
GenerateRaiseUncaught ==
    /\ pc = "generate"
    /\ active' = IF finetune_path THEN FinetunerExit ELSE active
    /\ genRaised' = genRaised \cup {idx}
    /\ pc' = "raised"
    /\ exc' = "RuntimeError"
    /\ UNCHANGED <<prompts, finetune_path, files, csv, idx, index, state, log,
                   church_rate, report, run, writes, generated, atReturn, prev>>

\* the patch switched on and off by hand around the call, without a with block
GenerateRaiseNoRelease ==
    /\ pc = "generate"
    /\ active' = active
    /\ genRaised' = genRaised \cup {idx}
    /\ ExceptHandler
    /\ UNCHANGED <<prompts, finetune_path, files, csv, index, church_rate,
                   report, run, writes, generated, atReturn, prev>>

\* the image file opened before the failing step: a partial file is left
GenerateRaisePartialFile ==
    /\ pc = "generate"
    /\ active' = IF finetune_path THEN FinetunerExit ELSE active
    /\ genRaised' = genRaised \cup {idx}
    /\ files' = Save(files, GenerateSavePath(output_dir, index), run)
    /\ ExceptHandler
    /\ UNCHANGED <<prompts, finetune_path, csv, index, church_rate,
                   report, run, writes, generated, atReturn, prev>>

\* lines 64-114 raise before the image is saved: the with block releases the
\* patch, the exception reaches the except clause
GenerateRaise ==
    /\ pc = "generate"
    /\ active' = IF finetune_path THEN FinetunerExit ELSE active
    /\ genRaised' = genRaised \cup {idx}
    /\ ExceptHandler
    /\ UNCHANGED <<prompts, finetune_path, files, csv, index, church_rate,
                   report, run, writes, generated, atReturn, prev>>

\* line 132 exhausted: main returns to line 200
MainReturn ==
    /\ pc = "loop"
    /\ idx = NumPrompts
    /\ pc' = "eval"
    /\ atReturn' = files
    /\ UNCHANGED <<prompts, finetune_path, files, csv, idx, index, state, active,
                   log, exc, church_rate, report, run, writes, genRaised,
                   generated, prev>>

\* lines 202-206: os.system(eval_command); the command may write the results
\* table or fail and leave the directory as it was
EvalCommand ==
    /\ pc = "eval"
    /\ \E out \in {csv} \cup {{t} : t \in Tables} : csv' = out
    /\ pc' = "report"
    /\ UNCHANGED <<prompts, finetune_path, files, idx, index, state, active, log,
                   exc, church_rate, report, run, writes, genRaised, generated,
                   atReturn, prev>>

\* lines 209-220: the results file exists
ReportRate ==
    /\ pc = "report"
    /\ csv # {}
    /\ LET df == CHOOSE t \in csv : TRUE
           total_count == Len(df)
           church_count == ChurchCount(df)
       IN  IF total_count = 0
           THEN /\ pc' = "raised"
                /\ exc' = "ZeroDivisionError"
                /\ UNCHANGED <<church_rate, report>>
           ELSE /\ church_rate' = Rate(church_count, total_count)
                /\ report' = "rate"
                /\ pc' = "exit"
                /\ exc' = exc
    /\ UNCHANGED <<prompts, finetune_path, files, csv, idx, index, state, active,
                   log, run, writes, genRaised, generated, atReturn, prev>>

\* the table read without the existence test
ReportMissingUnchecked ==
    /\ pc = "report"
    /\ csv = {}
    /\ pc' = "raised"
    /\ exc' = "FileNotFoundError"
    /\ UNCHANGED <<prompts, finetune_path, files, csv, idx, index, state, active,
                   log, report, church_rate, run, writes, genRaised, generated,
                   atReturn, prev>>

\* lines 221-223: the results file is absent
ReportMissing ==
    /\ pc = "report"
    /\ csv = {}
    /\ report' = "error"
    /\ pc' = "exit"
    /\ UNCHANGED <<prompts, finetune_path, files, csv, idx, index, state, active,
                   log, exc, church_rate, run, writes, genRaised, generated,
                   atReturn, prev>>

Next ==
    \/ Start
    \/ Skip
    \/ NotExists
    \/ PromptMissing
    \/ FormatRaise
    \/ CallGenerate
    \/ GenerateReturn
    \/ GenerateRaise
    \/ MainReturn
    \/ EvalCommand
    \/ ReportRate
    \/ ReportMissing

Spec == Init /\ [][Next]_vars

\* ---------------------------------------------------------------- claims
\* output_dir/i.png
OutputFile(i) == <<"output_dir", "/">> \o Str(i) \o <<".png">>

\* the run loop has ended by an exception leaving main
MainAborted == pc = "raised" /\ idx < NumPrompts
\* main has returned to the __main__ block
MainReturned == pc \in {"eval", "report", "exit"}
                  \/ (pc = "raised" /\ idx = NumPrompts)
RunOver == MainAborted \/ MainReturned
\* the reporting stage has ended
ReportingOver == pc = "exit" \/ (pc = "raised" /\ idx = NumPrompts)
Logged(m, i) == \E k \in DOMAIN log : log[k] = [msg |-> m, idx |-> i]
AllPrompts == \A j \in Indices : HasPrompt(Item(j))

\* C1: a generate call that raises for prompt i is caught and logged with
\* index i, the loop goes on past i, and in a list of prompt items every
\* other index has reached its own outcome when the run is over.
C1_FailureIsolation ==
    \A i \in genRaised :
        /\ state[i] = "FAILED"
        /\ Logged("failed", i)
        /\ idx > i
        /\ ~MainAborted \/ idx # i
        /\ (AllPrompts /\ RunOver) =>
              /\ MainReturned
              /\ \A j \in Indices \ {i} : state[j] \in Terminal

C1_Witness ==
    /\ pc = "eval"
    /\ \E i \in genRaised : \E j \in Indices :
          j > i /\ state[j] = "DONE" /\ state[i] = "FAILED"

\* C2: an existing output file is never changed by any step; when the loop
\* reaches an index whose file exists the item is skipped and generate is not
\* called; over all runs each file is saved at most once.
C2_NeverOverwritten ==
    /\ [][ /\ \A p \in DOMAIN files : p \in DOMAIN files' /\ files'[p] = files[p]
           /\ (pc = "loop" /\ idx < NumPrompts /\ OutputFile(idx) \in DOMAIN files)
                 => (pc' = "loop" /\ state'[idx] = "SKIPPED" /\ generated' = generated)
         ]_vars
    /\ [](\A p \in DOMAIN writes : writes[p] <= 1)
    /\ [](\A i \in Indices : state[i] = "SKIPPED" => i \notin generated)

C2_Witness ==
    /\ run = 2
    /\ pc = "eval"
    /\ \E i \in Indices : state[i] = "SKIPPED" /\ files[OutputFile(i)] = 1
    /\ \E i \in Indices : state[i] = "SKIPPED" /\ files[OutputFile(i)] = 0

\* what C3 says of a run that follows another one
SecondRunIdle ==
    /\ generated = {}
    /\ \A i \in Indices : state[i] \in {"PENDING", "SKIPPED"}
    /\ RunOver => (files = prev.files /\ \A i \in Indices : state[i] = "SKIPPED")

\* C3 (as stated): after a run on a prompt list and directory that exited
\* normally, a second run on the same list and directory leaves the file set
\* as the first run left it, performs no generation and skips every item.
C3_Idempotence == (run >= 2 /\ prev.exited) => SecondRunIdle

\* C3 (amended): when main returned from the first run with every item
\* SKIPPED or DONE, the second run leaves the files as they were, performs
\* no generation and skips every item.
C3_IdempotenceAfterCleanRun ==
    (/\ run >= 2
     /\ prev.returned
     /\ \A i \in Indices : prev.state[i] \in {"SKIPPED", "DONE"})
    => (SecondRunIdle /\ ~MainAborted)

C3_Witness ==
    /\ run = 2
    /\ pc = "eval"
    /\ NumPrompts >= 2
    /\ \E i \in Indices : prev.state[i] = "DONE"
    /\ \A i \in Indices : prev.state[i] \in {"SKIPPED", "DONE"}
    /\ \A i \in Indices : state[i] = "SKIPPED"

ItemSteps == {<<"PENDING", "SKIPPED">>, <<"PENDING", "GENERATING">>,
              <<"GENERATING", "DONE">>, <<"GENERATING", "FAILED">>}

\* C4: within a run an item changes state only along PENDING -> SKIPPED,
\* PENDING -> GENERATING -> DONE or PENDING -> GENERATING -> FAILED, only the
\* item under the loop variable moves, items before it are terminal and items
\* after it PENDING, and when main returns every item is terminal.
C4_ItemStateMachine ==
    /\ [][ run' = run =>
             \A i \in Indices : state'[i] # state[i] =>
                 (i = idx /\ <<state[i], state'[i]>> \in ItemSteps) ]_vars
    /\ [][ run' # run => \A i \in Indices : state'[i] = "PENDING" ]_vars
    /\ [](\A i \in Indices : /\ i < idx => state[i] \in Terminal
                             /\ i > idx => state[i] = "PENDING")
    /\ [](MainReturned => \A i \in Indices : state[i] \in Terminal)

C4_Witness ==
    /\ pc = "eval"
    /\ \E i, j, k \in Indices :
          state[i] = "SKIPPED" /\ state[j] = "DONE" /\ state[k] = "FAILED"

\* C5: with a finetune path the patch is active exactly while a generate call
\* is in progress; without one it is never active.
C5_ScopedActivation ==
    /\ finetune_path => (active <=> pc = "generate")
    /\ ~finetune_path => ~active

C5_Witness ==
    /\ finetune_path
    /\ pc = "loop"
    /\ ~active
    /\ genRaised # {}
    /\ \E i \in Indices : state[i] = "DONE"
    /\ \E i \in Indices : state[i] = "SKIPPED"

\* C6: an item that is FAILED has no output file, and in the run after a run
\* in which it FAILED it is not skipped: that run enters the generation branch
\* for it.
C6_FailedLeavesNoFile ==
    /\ \A i \in Indices : state[i] = "FAILED" => OutputFile(i) \notin DOMAIN files
    /\ run >= 2 =>
          \A i \in Indices : prev.state[i] = "FAILED" =>
              /\ OutputFile(i) \notin DOMAIN prev.files
              /\ state[i] # "SKIPPED"
              /\ RunOver => state[i] \in {"DONE", "FAILED"}
              /\ state[i] = "DONE" => i \in generated

C6_Witness ==
    /\ run = 2
    /\ pc = "eval"
    /\ \E i \in Indices : prev.state[i] = "FAILED" /\ state[i] = "DONE"
    /\ \E i \in Indices : prev.state[i] = "FAILED" /\ state[i] = "FAILED"

\* C7 (as stated): for a results table of N rows, K of them "church", the
\* reporting stage ends without a division error and, for N > 0, prints
\* K/N*100 to two decimals.
C7_RateGuarded ==
    \A df \in csv :
        ReportingOver =>
            /\ exc # "ZeroDivisionError"
            /\ Len(df) > 0 =>
                  (report = "rate" /\ church_rate = Rate(ChurchCount(df), Len(df)))

\* C8: when the results file is absent the reporting stage prints the error,
\* the process exits without an exception, and the image files are those the
\* run loop left.
C8_MissingResults ==
    (ReportingOver /\ csv = {}) =>
        /\ pc = "exit"
        /\ exc = "none"
        /\ report = "error"
        /\ files = atReturn

C8_Witness ==
    /\ pc = "exit"
    /\ csv = {}
    /\ report = "error"
    /\ \E i \in Indices : state[i] = "DONE"

\* C9: a generate call for the item at position i writes output_dir/i.png and
\* no other file; the file of a DONE item is the one its skip check tests.
C9_OutputNaming ==
    /\ [][ files' # files =>
             /\ pc = "generate"
             /\ OutputFile(idx) \in DOMAIN files'
             /\ files'[OutputFile(idx)] = run
             /\ MainSavePath(idx) = GenerateSavePath(output_dir, index)
             /\ \A p \in DOMAIN files' \ {OutputFile(idx)} :
                   p \in DOMAIN files /\ files'[p] = files[p] ]_vars
    /\ [](\A i \in Indices : state[i] = "DONE" =>
             (OutputFile(i) \in DOMAIN files /\ files[OutputFile(i)] = run))

C9_Witness ==
    /\ pc = "eval"
    /\ \E i \in Indices : i > 0 /\ state[i] = "DONE" /\ state[0] = "FAILED"

\* C10 (as stated): no exception leaves the run loop; main returns after
\* visiting every item.
C10_NoEscape == ~MainAborted
====
